---- MODULE Spec2Model ----
(***************************************************************************)
(* SSH Control: the single process-wide SSHConnection (server.py), the     *)
(* destructive-command classifier, and the confirmation-gated execute      *)
(* handler as bound by the HTTP wrapper (http_wrapper.py) and by the MCP   *)
(* call_tool handler (server.py).                                          *)
(*                                                                         *)
(* Python strings are TLA+ strings; a character is a string of length 1.   *)
(* Python's None is the value NoneV.                                       *)
(***************************************************************************)
EXTENDS Integers, Sequences, FiniteSets, TLC

NoneV == "<None>"

(***************************************************************************)
(* Text primitives: str.lower, str.strip, str.startswith, `in`.            *)
(***************************************************************************)
CharAt(s, i) == SubSeq(s, i, i)

UpperLetters == "ABCDEFGHIJKLMNOPQRSTUVWXYZ"
LowerLetters == "abcdefghijklmnopqrstuvwxyz"
Digits == "0123456789"

CharsOf(s) == {CharAt(s, i) : i \in 1..Len(s)}

\* \w of the re module, on the ASCII characters the commands use
WordChars == CharsOf(UpperLetters) \cup CharsOf(LowerLetters) \cup CharsOf(Digits) \cup {"_"}

\* \s of the re module and the characters str.strip() removes
Whitespace == {" ", "\t", "\n", "\r", "\f"}

LowerChar(c) ==
    IF c \in CharsOf(UpperLetters)
    THEN CharAt(LowerLetters, CHOOSE i \in 1..Len(UpperLetters) : CharAt(UpperLetters, i) = c)
    ELSE c

RECURSIVE Lower(_)
Lower(s) == IF Len(s) = 0 THEN "" ELSE LowerChar(Head(s)) \o Lower(Tail(s))

RECURSIVE LStrip(_)
LStrip(s) == IF Len(s) > 0 /\ Head(s) \in Whitespace THEN LStrip(Tail(s)) ELSE s

RECURSIVE RStrip(_)
RStrip(s) ==
    IF Len(s) > 0 /\ CharAt(s, Len(s)) \in Whitespace
    THEN RStrip(SubSeq(s, 1, Len(s) - 1))
    ELSE s

Strip(s) == RStrip(LStrip(s))

StartsWith(s, p) == Len(s) >= Len(p) /\ SubSeq(s, 1, Len(p)) = p

LitAt(s, i, lit) == i + Len(lit) - 1 <= Len(s) /\ SubSeq(s, i, i + Len(lit) - 1) = lit

\* Python's `sub in s`
Contains(s, sub) == \E i \in 1..(Len(s) + 1) : LitAt(s, i, sub)

(***************************************************************************)
(* The regular expressions of DESTRUCTIVE_PATTERNS, as sequences of atoms, *)
(* and re.search over them.                                                *)
(***************************************************************************)
WB == [t |-> "wb"]                          \* \b
Lit(s) == [t |-> "lit", s |-> s]            \* literal text
DotStar == [t |-> "dotstar"]                \* .*
PlusOf(cs) == [t |-> "plus", cs |-> cs]     \* [..]+
WsStar == [t |-> "ws"]                      \* \s*
Alt(opts) == [t |-> "alt", opts |-> opts]   \* (a|b|c)

IsWordAt(s, i) == i >= 1 /\ i <= Len(s) /\ CharAt(s, i) \in WordChars

\* \b at the gap before character i
BoundaryAt(s, i) == IsWordAt(s, i - 1) # IsWordAt(s, i)

RECURSIVE MatchAt(_, _, _, _)
MatchAt(p, k, s, i) ==
    IF k > Len(p) THEN TRUE
    ELSE LET a == p[k] IN
         CASE a.t = "wb" -> BoundaryAt(s, i) /\ MatchAt(p, k + 1, s, i)
           [] a.t = "lit" -> LitAt(s, i, a.s) /\ MatchAt(p, k + 1, s, i + Len(a.s))
           [] a.t = "dotstar" ->
                \E j \in i..(Len(s) + 1) :
                    /\ \A m \in i..(j - 1) : CharAt(s, m) # "\n"
                    /\ MatchAt(p, k + 1, s, j)
           [] a.t = "plus" ->
                \E j \in (i + 1)..(Len(s) + 1) :
                    /\ \A m \in i..(j - 1) : CharAt(s, m) \in a.cs
                    /\ MatchAt(p, k + 1, s, j)
           [] a.t = "ws" ->
                \E j \in i..(Len(s) + 1) :
                    /\ \A m \in i..(j - 1) : CharAt(s, m) \in Whitespace
                    /\ MatchAt(p, k + 1, s, j)
           [] a.t = "alt" ->
                \E o \in a.opts : LitAt(s, i, o) /\ MatchAt(p, k + 1, s, i + Len(o))

re_search(p, s) == \E i \in 1..(Len(s) + 1) : MatchAt(p, 1, s, i)

Word(w) == <<WB, Lit(w), WB>>
WordThen(w, rest) == <<WB, Lit(w), WB, DotStar>> \o rest

DESTRUCTIVE_PATTERNS == <<
    WordThen("rm", <<Lit("-"), PlusOf({"r", "f"})>>),
    WordThen("rm", <<Lit("/")>>),
    Word("dd"),
    Word("mkfs"),
    Word("format"),
    Word("fdisk"),
    Word("parted"),
    WordThen("cryptsetup", <<Lit("luksFormat")>>),
    <<WB, Lit(":>"), WsStar, Lit("/")>>,
    Word("shred"),
    Word("wipefs"),
    <<WB, Lit(">"), WsStar, Lit("/dev/")>>,
    WordThen("chmod", <<Lit("777")>>),
    Word("chown"),
    WordThen("kill", <<Lit("-9")>>),
    Word("killall"),
    Word("pkill"),
    WordThen("systemctl", <<Alt({"stop", "disable", "mask", "restart"})>>),
    WordThen("service", <<Alt({"stop", "disable", "restart"})>>),
    WordThen("apt-get", <<Alt({"remove", "purge", "autoremove"})>>),
    WordThen("apt", <<Alt({"remove", "purge", "autoremove"})>>),
    WordThen("yum", <<Alt({"remove", "erase"})>>),
    WordThen("dnf", <<Alt({"remove", "erase"})>>),
    WordThen("pacman", <<Lit("-R")>>),
    WordThen("snap", <<Lit("remove")>>),
    WordThen("docker", <<Alt({"rm", "rmi", "system prune"})>>),
    WordThen("iptables", <<Lit("-F")>>),
    WordThen("ufw", <<Lit("disable")>>),
    WordThen("init", <<Lit("0")>>),
    Word("shutdown"),
    Word("reboot"),
    Word("halt"),
    Word("poweroff"),
    Word("userdel"),
    Word("usermod"),
    Word("groupdel"),
    WordThen("mv", <<Lit("/")>>),
    Word("truncate"),
    WordThen("crontab", <<Lit("-r")>>)
>>

\* every pattern has to match
is_destructive_every_pattern(command) ==
    LET command_lower == Strip(Lower(command)) IN
    \A n \in 1..Len(DESTRUCTIVE_PATTERNS) : re_search(DESTRUCTIVE_PATTERNS[n], command_lower)

is_destructive_command(command) ==
    LET command_lower == Strip(Lower(command)) IN
    \E n \in 1..Len(DESTRUCTIVE_PATTERNS) : re_search(DESTRUCTIVE_PATTERNS[n], command_lower)

(***************************************************************************)
(* The host registry SSH_HOSTS (config.yaml, read once by load_ssh_config) *)
(* and the inputs of the requests.                                         *)
(***************************************************************************)
SSH_HOSTS ==
    ("vm1" :> [hostname |-> "10.0.0.5", port |-> 22, username |-> "admin",
               password |-> "s3cret", description |-> "web"]) @@
    ("vm2" :> [hostname |-> "10.0.0.6", port |-> 2222, username |-> "root",
               password |-> "pw2", description |-> ""]) @@
    ("vm3" :> [hostname |-> "10.0.0.7", port |-> 22, username |-> "root",
               password |-> NoneV, description |-> "no password"])

\* the "host" field of a connect request: aliases, a literal hostname, nothing
HostArgs == {"vm1", "vm2", "vm3", "10.0.0.9", ""}

\* the "command" field of an execute request
Commands == {"", "ls -la", "rm -rf /var/x", " sudo reboot"}

\* a secret a caller may put into the request body; no handler reads it
RequestSecrets == {NoneV, "hunter2"}

\* what the remote side reports for a command that ends
RemoteOutcomes == {
    [exit_code |-> 0, stdout |-> "[sudo] password for admin: \nok\n", stderr |-> ""],
    [exit_code |-> 1, stdout |-> "", stderr |-> "failed\n"] }

\* two request-handling threads of the serving layer: every race between two calls
Threads == {1, 2}

\* the count of transports left open out of reach saturates here
MaxLeaks == 1

Truthy(v) == v # NoneV /\ v # ""

\* Python's `a or b` on optional strings
OrElse(a, b) == IF Truthy(a) THEN a ELSE b

\* f"{v}"
Fmt(v) == IF v = NoneV THEN "None" ELSE v

(***************************************************************************)
(* State.                                                                  *)
(*   client, hostname, host_alias : the fields of ssh_conn; client is the  *)
(*       SSHClient object self.client refers to (NoClient for None)        *)
(*   leaks   : transports left open that ssh_conn no longer refers to, so  *)
(*       that no disconnect can close them                                 *)
(*   th      : per thread, the handler it runs, its position and locals    *)
(*   mode    : "http" (Flask, one thread per request) or "stdio" (the MCP  *)
(*             event loop, one call_tool at a time)                        *)
(*   lastDisc: outcome of the call completed last, if it was a disconnect  *)
(*             that ran alone                                              *)
(*   request, reply : a call of one of the functions that do not touch     *)
(*             ssh_conn (is_destructive_command, list_hosts) and what it   *)
(*             returned                                                    *)
(***************************************************************************)
VARIABLES client, hostname, host_alias, leaks, th, mode, lastDisc, request, reply

vars == <<client, hostname, host_alias, leaks, th, mode, lastDisc, request, reply>>
session == <<client, hostname, host_alias>>

\* what no step of connect, execute, disconnect or status writes
env == <<mode, request, reply>>

NoRequest == [fn |-> "none"]
NoReply == [given |-> FALSE]
Returned(value) == [given |-> TRUE, value |-> value]

\* a channel: current says that its transport is the one self.client holds now,
\* host is the host that transport is connected to
NoChan == [open |-> FALSE, current |-> FALSE, host |-> NoneV, cmdline |-> "",
           pty |-> FALSE, stdin |-> <<>>, stdin_closed |-> FALSE,
           exited |-> FALSE, closed |-> FALSE]

NoResult == [kind |-> "none", msg |-> "", hostname |-> NoneV, command |-> "",
             exit_code |-> 0, stdout |-> "", stderr |-> "", success |-> FALSE,
             used_sudo |-> FALSE, connected |-> FALSE, host |-> NoneV]

\* confirmed, req_sudo: the request as it came; use_sudo: the handler's use_sudo;
\* before: client, hostname and host_alias as a connect or disconnect found them,
\* kept as long as no other call has begun since
IdleRec == [pc |-> "idle", op |-> "none", host |-> "", command |-> "",
            confirmed |-> FALSE, req_sudo |-> FALSE, use_sudo |-> FALSE,
            l_hostname |-> NoneV, l_password |-> NoneV, l_description |-> "",
            sudo_password |-> NoneV, l_name |-> NoneV,
            chan |-> NoChan, opened |-> 0, solo |-> FALSE, after |-> "none",
            before |-> <<>>, res |-> NoResult]

\* self.client = None
NoClient == [state |-> "none", host |-> NoneV]

\* ssh_conn = SSHConnection() and the serving layer before the first request
SessionInit ==
    /\ client = NoClient
    /\ hostname = NoneV
    /\ host_alias = NoneV
    /\ leaks = 0
    /\ th = [t \in Threads |-> IdleRec]
    /\ mode \in {"http", "stdio"}
    /\ lastDisc = "none"

Init ==
    /\ SessionInit
    /\ request = NoRequest
    /\ reply = NoReply

Running(u) == th[u].pc \notin {"idle", "done"}
OthersQuiet(t) == \A u \in Threads \ {t} : ~Running(u)

\* A request is taken up: under stdio the event loop runs one handler at a time.
CanBegin(t) ==
    /\ th[t].pc = "idle"
    /\ mode = "stdio" => \A u \in Threads : th[u].pc = "idle"

\* thread t starts a call with record r; a call in progress no longer runs alone
Begun(t, r) ==
    [u \in Threads |->
        IF u = t THEN r
        ELSE IF Running(u) THEN [th[u] EXCEPT !.solo = FALSE, !.before = <<>>]
        ELSE [th[u] EXCEPT !.before = <<>>]]

\* the session as the call of thread t finds it, if no other call is in progress
Found(t) == IF OthersQuiet(t) THEN session ELSE <<>>

Begin(t, r) == th' = Begun(t, r)

Step(t, r) == th' = [th EXCEPT ![t] = r]

\* the handler returns res; the channel it held, if any, is released and closes
Finish(r, res) ==
    [r EXCEPT !.pc = "done", !.res = res,
              !.chan = IF @.open THEN [@ EXCEPT !.current = FALSE, !.closed = TRUE] ELSE @]

ErrorRes(msg) == [NoResult EXCEPT !.kind = "error", !.msg = msg]
OkRes(msg) == [NoResult EXCEPT !.kind = "ok", !.msg = msg]

\* a check of the client handle alone
is_connected_client_only == client # NoClient

\* self.client is not None and self.hostname is not None
is_connected == client # NoClient /\ hostname # NoneV

(***************************************************************************)
(* The transport (paramiko.SSHClient).  An object is "new" (no transport), *)
(* "open" (authenticated transport to host), "unauth" (a transport whose   *)
(* authentication failed; connect leaves it open) or "closed".             *)
(***************************************************************************)
NewClient == [state |-> "new", host |-> NoneV]

HasTransport(c) == c.state \in {"open", "unauth"}

\* SSHClient.connect: the outcomes the network and the server decide
ConnectOutcomes == {"ok", "auth", "unreachable"}

ClientConnect(c, outcome, host) ==
    CASE outcome = "ok" -> [state |-> "open", host |-> host]
      [] outcome = "auth" -> [state |-> "unauth", host |-> host]
      [] OTHER -> c

\* a close() that leaves the transport as it is
ClientCloseSkipped(c) == c

\* SSHClient.close
ClientClose(c) == [state |-> "closed", host |-> NoneV]

Saturate(n) == IF n > MaxLeaks THEN MaxLeaks ELSE n

\* self.client stops referring to object c: an open transport of c stays open
Dropped(c) == IF HasTransport(c) THEN 1 ELSE 0

\* the channels of the transport self.client held are out of reach of close()
Orphaned(thr) ==
    [u \in Threads |->
        IF thr[u].chan.current THEN [thr[u] EXCEPT !.chan.current = FALSE] ELSE thr[u]]

(***************************************************************************)
(* SSHConnection.connect, as called by /api/connect and by ssh_connect.    *)
(***************************************************************************)
\* a fallback that goes on with an empty-handed default password
LookupProfileDefaultPassword(host) ==
    IF host \in DOMAIN SSH_HOSTS
    THEN [alias |-> host, hostname |-> SSH_HOSTS[host].hostname,
          password |-> SSH_HOSTS[host].password,
          description |-> SSH_HOSTS[host].description]
    ELSE [alias |-> NoneV, hostname |-> host, password |-> "root", description |-> ""]

\* lines 107-122: the profile of an alias, or the literal-hostname fallback
LookupProfile(host) ==
    IF host \in DOMAIN SSH_HOSTS
    THEN [alias |-> host, hostname |-> SSH_HOSTS[host].hostname,
          password |-> SSH_HOSTS[host].password,
          description |-> SSH_HOSTS[host].description]
    ELSE [alias |-> NoneV, hostname |-> host, password |-> NoneV, description |-> ""]

ConnectFailed(detail) == ErrorRes("SSH connection failed: " \o detail)

ConnectedMsg(host, description) ==
    "Successfully connected to " \o host \o
    (IF Truthy(description) THEN " (" \o description \o ")" ELSE "")

\* the handler's check of the request, then connect() up to self.host_alias = ...
ConnBegin(t) ==
    /\ CanBegin(t)
    /\ \E host \in HostArgs :
         LET r == [IdleRec EXCEPT !.op = "connect", !.host = host,
                                  !.before = Found(t)] IN
         IF ~Truthy(host)
         THEN /\ Begin(t, Finish(r, ErrorRes("No host specified")))
              /\ UNCHANGED host_alias
         ELSE LET p == LookupProfile(host) IN
              /\ host_alias' = p.alias
              /\ Begin(t, [r EXCEPT !.pc = "c_new", !.l_hostname = p.hostname,
                                    !.l_password = p.password,
                                    !.l_description = p.description])
    /\ lastDisc' = "none"
    /\ UNCHANGED <<client, hostname, leaks, env>>

\* self.client = paramiko.SSHClient(); then the password check
ConnNew(t) ==
    /\ th[t].pc = "c_new"
    /\ client' = NewClient
    /\ leaks' = Saturate(leaks + Dropped(client))
    /\ th' = Orphaned([th EXCEPT ![t] =
                IF Truthy(th[t].l_password)
                THEN [th[t] EXCEPT !.pc = "c_connect"]
                ELSE Finish(th[t], ConnectFailed(
                       "No password found for host '" \o th[t].host \o "' in config"))])
    /\ UNCHANGED <<hostname, host_alias, env, lastDisc>>

\* self.client.connect(**connect_kwargs) on whatever self.client is now
ConnConnect(t) ==
    /\ th[t].pc = "c_connect"
    /\ IF client = NoClient
       THEN /\ Step(t, Finish(th[t], ConnectFailed("'NoneType' object has no attribute 'connect'")))
            /\ UNCHANGED <<client, leaks>>
       ELSE \E outcome \in ConnectOutcomes :
              LET after == ClientConnect(client, outcome, th[t].l_hostname)
                  replaces == outcome # "unreachable" /\ HasTransport(client)
                  moved == [th EXCEPT ![t] =
                              IF outcome = "ok"
                              THEN [th[t] EXCEPT !.pc = "c_sethost"]
                              ELSE Finish(th[t], ConnectFailed(outcome))]
              IN /\ client' = after
                 /\ th' = IF replaces THEN Orphaned(moved) ELSE moved
                 /\ leaks' = Saturate(leaks + (IF replaces THEN 1 ELSE 0))
    /\ UNCHANGED <<hostname, host_alias, env, lastDisc>>

\* self.hostname = hostname; return msg
ConnSetHost(t) ==
    /\ th[t].pc = "c_sethost"
    /\ hostname' = th[t].l_hostname
    /\ Step(t, Finish(th[t], OkRes(ConnectedMsg(th[t].host, th[t].l_description))))
    /\ UNCHANGED <<client, host_alias, leaks, env, lastDisc>>

(***************************************************************************)
(* SSHConnection.disconnect, as called by /api/disconnect and by           *)
(* ssh_disconnect.                                                         *)
(***************************************************************************)
DisconnectedMsg(name) == "Disconnected from " \o Fmt(name)
NoActiveConnection == "No active connection"

\* if self.client: hostname = self.host_alias or self.hostname
DiscBegin(t) ==
    /\ CanBegin(t)
    /\ LET r == [IdleRec EXCEPT !.op = "disconnect", !.solo = OthersQuiet(t),
                                !.after = IF OthersQuiet(t) THEN lastDisc ELSE "none",
                                !.before = Found(t)] IN
       IF client # NoClient
       THEN Begin(t, [r EXCEPT !.pc = "d_close", !.l_name = OrElse(host_alias, hostname)])
       ELSE Begin(t, Finish(r, OkRes(NoActiveConnection)))
    /\ lastDisc' = IF client = NoClient /\ OthersQuiet(t) THEN "noop" ELSE "none"
    /\ UNCHANGED <<session, leaks, env>>

\* a transport that closes takes its channels with it
CloseChannels(thr) ==
    [u \in Threads |->
        IF thr[u].chan.current THEN [thr[u] EXCEPT !.chan.closed = TRUE] ELSE thr[u]]

\* self.client.close()
DiscClose(t) ==
    /\ th[t].pc = "d_close"
    /\ IF client = NoClient
       THEN /\ Step(t, Finish(th[t], ErrorRes("'NoneType' object has no attribute 'close'")))
            /\ UNCHANGED client
       ELSE /\ client' = ClientClose(client)
            /\ th' = CloseChannels([th EXCEPT ![t] = [th[t] EXCEPT !.pc = "d_reset"]])
    /\ UNCHANGED <<hostname, host_alias, leaks, env, lastDisc>>

\* self.client = None; self.hostname = None; self.host_alias = None; return
DiscReset(t) ==
    /\ th[t].pc = "d_reset"
    /\ client' = NoClient
    /\ hostname' = NoneV
    /\ host_alias' = NoneV
    /\ leaks' = Saturate(leaks + Dropped(client))
    /\ th' = Orphaned([th EXCEPT ![t] = Finish(th[t], OkRes(DisconnectedMsg(th[t].l_name)))])
    /\ lastDisc' = IF th[t].solo THEN "named" ELSE "none"
    /\ UNCHANGED env

(***************************************************************************)
(* /api/status and ssh_status.                                             *)
(***************************************************************************)
StatusCall(t) ==
    /\ CanBegin(t)
    /\ LET r == [IdleRec EXCEPT !.op = "status"] IN
       IF is_connected
       THEN Begin(t, Finish(r, [OkRes("Connected to: " \o OrElse(host_alias, hostname) \o
                                      (IF Truthy(host_alias) /\ Truthy(hostname)
                                       THEN " (" \o hostname \o ")" ELSE ""))
                                EXCEPT !.connected = TRUE, !.host = host_alias,
                                       !.hostname = hostname]))
       ELSE Begin(t, Finish(r, OkRes("Not connected to any host")))
    /\ lastDisc' = "none"
    /\ UNCHANGED <<session, leaks, env>>

(***************************************************************************)
(* execute: the /api/execute handler and the ssh_execute branch of         *)
(* call_tool (the same steps), then SSHConnection.execute_command.         *)
(***************************************************************************)
\* auto-detection without strip()
PromoteSudoNoStrip(command, use_sudo) ==
    IF StartsWith(command, "sudo") THEN TRUE ELSE use_sudo

\* Auto-detect sudo: if command.strip().startswith('sudo'): use_sudo = True
PromoteSudo(command, use_sudo) ==
    IF StartsWith(Strip(command), "sudo") THEN TRUE ELSE use_sudo

\* the classifier's verdict on the commands of the model, computed once
Destructive == [c \in Commands |-> is_destructive_command(c)]

\* the gate with the confirmation flag read the wrong way round
GateRefusesInverted(command, confirmed) == Destructive[command] /\ confirmed

\* if is_destructive_command(command): if not confirmed: return the warning
GateRefuses(command, confirmed) == Destructive[command] /\ ~confirmed

\* the connectivity check made before the gate answers a refused command
RefusalAsNotConnected(command) ==
    [NoResult EXCEPT !.kind = "error",
                     !.msg = "Not connected to any host. Please connect first.",
                     !.command = command]

RefusalRes(command) ==
    [NoResult EXCEPT !.kind = "refusal",
                     !.msg = "Destructive command requires confirmation",
                     !.command = command]

\* a handler that lets the request supply the secret
ResolveFromRequest(use_sudo, alias, request_secret) ==
    IF use_sudo /\ Truthy(request_secret) THEN request_secret
    ELSE IF use_sudo /\ Truthy(alias) /\ alias \in DOMAIN SSH_HOSTS
    THEN SSH_HOSTS[alias].password
    ELSE NoneV

\* sudo_password = SSH_HOSTS[ssh_conn.host_alias].get('password') when use_sudo
\* and ssh_conn.host_alias names a profile; request_secret is what the request
\* body may carry besides
ResolveSudoPassword(use_sudo, alias, request_secret) ==
    IF use_sudo /\ Truthy(alias) /\ alias \in DOMAIN SSH_HOSTS
    THEN SSH_HOSTS[alias].password
    ELSE NoneV

\* the prefix added to every escalated command
ExecCommandLineAlwaysWrapped(command, use_sudo) ==
    IF use_sudo THEN "sudo -S " \o command ELSE command

\* lines 161-169 of execute_command: the command line sent
ExecCommandLine(command, use_sudo) ==
    IF use_sudo
    THEN IF StartsWith(Strip(command), "sudo") THEN command ELSE "sudo -S " \o command
    ELSE command

\* get_pty=use_sudo
WantsPty(use_sudo) == use_sudo

ExecFailed(detail) == ErrorRes("Failed to execute command: " \o detail)
NotConnected == ErrorRes("Not connected to any host. Please connect first.")

\* the request is read, sudo is auto-detected, the gate decides
ExecBegin(t) ==
    /\ CanBegin(t)
    /\ \E command \in Commands, confirmed \in BOOLEAN, use_sudo \in BOOLEAN :
         LET r == [IdleRec EXCEPT !.op = "execute", !.command = command,
                                  !.confirmed = confirmed, !.req_sudo = use_sudo] IN
         IF command = ""
         THEN Begin(t, Finish(r, ErrorRes("No command provided")))
         ELSE IF GateRefuses(command, confirmed)
         THEN Begin(t, Finish(r, RefusalRes(command)))
         ELSE Begin(t, [r EXCEPT !.pc = "e_resolve",
                                 !.use_sudo = PromoteSudo(command, use_sudo)])
    /\ lastDisc' = "none"
    /\ UNCHANGED <<session, leaks, env>>

\* Get sudo password if needed (reads ssh_conn.host_alias)
ExecResolve(t) ==
    /\ th[t].pc = "e_resolve"
    /\ \E request_secret \in RequestSecrets :
         Step(t, [th[t] EXCEPT !.pc = "e_check",
                    !.sudo_password =
                        ResolveSudoPassword(th[t].use_sudo, host_alias, request_secret)])
    /\ UNCHANGED <<session, leaks, env, lastDisc>>

\* if not self.client or not self.hostname: raise
ExecCheck(t) ==
    /\ th[t].pc = "e_check"
    /\ IF is_connected
       THEN Step(t, [th[t] EXCEPT !.pc = "e_open"])
       ELSE Step(t, Finish(th[t], NotConnected))
    /\ UNCHANGED <<session, leaks, env, lastDisc>>

\* exec_command retried once after the first channel
OpenChannelRetried(r, c) ==
    [r EXCEPT !.pc = "e_write",
              !.opened = @ + 2,
              !.chan = [NoChan EXCEPT !.open = TRUE, !.current = TRUE,
                                      !.host = c.host,
                                      !.cmdline = ExecCommandLine(r.command, r.use_sudo),
                                      !.pty = WantsPty(r.use_sudo)]]

\* the channel exec_command opens on the transport of SSHClient c
OpenChannel(r, c) ==
    [r EXCEPT !.pc = "e_write",
              !.opened = @ + 1,
              !.chan = [NoChan EXCEPT !.open = TRUE, !.current = TRUE,
                                      !.host = c.host,
                                      !.cmdline = ExecCommandLine(r.command, r.use_sudo),
                                      !.pty = WantsPty(r.use_sudo)]]

\* self.client.exec_command(exec_command, timeout=30, get_pty=use_sudo)
ExecOpen(t) ==
    /\ th[t].pc = "e_open"
    /\ IF client = NoClient
       THEN Step(t, Finish(th[t], ExecFailed("'NoneType' object has no attribute 'exec_command'")))
       ELSE IF client.state # "open"
       THEN Step(t, Finish(th[t], ExecFailed("no session on the transport")))
       ELSE \E accepted \in BOOLEAN :
              IF accepted
              THEN Step(t, OpenChannel(th[t], client))
              ELSE Step(t, Finish(th[t], ExecFailed("channel open failed")))
    /\ UNCHANGED <<session, leaks, env, lastDisc>>

\* stdin.write(sudo_password + '\n'); stdin.flush()
WriteSecret(ch, secret) == [ch EXCEPT !.stdin = Append(@, secret \o "\n")]

\* if use_sudo and sudo_password: send password
ExecWrite(t) ==
    /\ th[t].pc = "e_write"
    /\ IF th[t].use_sudo /\ Truthy(th[t].sudo_password)
       THEN IF th[t].chan.closed
            THEN Step(t, Finish(th[t], ExecFailed("Socket is closed")))
            ELSE Step(t, [th[t] EXCEPT !.pc = "e_wait",
                            !.chan = WriteSecret(@, th[t].sudo_password)])
       ELSE Step(t, [th[t] EXCEPT !.pc = "e_wait"])
    /\ UNCHANGED <<session, leaks, env, lastDisc>>

\* the remote command ends and the server sends its exit status
RemoteExit(t) ==
    /\ th[t].pc = "e_wait"
    /\ ~th[t].chan.exited
    /\ ~th[t].chan.closed
    /\ Step(t, [th[t] EXCEPT !.chan.exited = TRUE])
    /\ UNCHANGED <<session, leaks, env, lastDisc>>

RECURSIVE SplitLines(_)
\* text.split('\n')
SplitLines(text) ==
    IF ~Contains(text, "\n") THEN <<text>>
    ELSE LET i == CHOOSE k \in 1..Len(text) :
                    /\ CharAt(text, k) = "\n"
                    /\ \A m \in 1..(k - 1) : CharAt(text, m) # "\n"
         IN <<SubSeq(text, 1, i - 1)>> \o SplitLines(SubSeq(text, i + 1, Len(text)))

RECURSIVE JoinLines(_)
\* '\n'.join(lines)
JoinLines(lines) ==
    IF Len(lines) = 0 THEN ""
    ELSE IF Len(lines) = 1 THEN lines[1]
    ELSE lines[1] \o "\n" \o JoinLines(Tail(lines))

HasSudoMarker(line) == Contains(line, "[sudo]")

\* the prompt lines removed whether or not the call is escalated
StripSudoPromptAlways(use_sudo, stdout_text) ==
    IF HasSudoMarker(stdout_text)
    THEN JoinLines(SelectSeq(SplitLines(stdout_text), LAMBDA line : ~HasSudoMarker(line)))
    ELSE stdout_text

\* Remove password prompt from output if present
StripSudoPrompt(use_sudo, stdout_text) ==
    IF use_sudo /\ HasSudoMarker(stdout_text)
    THEN JoinLines(SelectSeq(SplitLines(stdout_text), LAMBDA line : ~HasSudoMarker(line)))
    ELSE stdout_text

\* the dictionary execute_command returns, and the handler's response from it
ExecResult(r, o, host) ==
    [NoResult EXCEPT !.kind = "result", !.hostname = host, !.command = r.command,
                     !.exit_code = o.exit_code,
                     !.stdout = StripSudoPrompt(r.use_sudo, o.stdout),
                     !.stderr = o.stderr, !.success = (o.exit_code = 0),
                     !.used_sudo = r.use_sudo]

\* recv_exit_status on a channel that closed without an exit status
ClosedOutcome == [exit_code |-> -1, stdout |-> "", stderr |-> ""]

\* recv_exit_status() returns once the exit status arrived or the channel closed
ExitStatusAvailable(ch) == ch.exited \/ ch.closed

\* a failure to read the output that tears the session down
ExecFinishTearingDown(t) ==
    /\ th[t].pc = "e_wait"
    /\ ExitStatusAvailable(th[t].chan)
    /\ \E readable \in BOOLEAN :
         IF th[t].chan.exited /\ ~readable
         THEN /\ Step(t, Finish(th[t], ExecFailed("timed out")))
              /\ client' = NoClient
              /\ hostname' = NoneV
              /\ host_alias' = NoneV
         ELSE /\ \E o \in RemoteOutcomes :
                   Step(t, Finish(th[t], ExecResult(th[t], o, hostname)))
              /\ UNCHANGED session
    /\ UNCHANGED <<leaks, env, lastDisc>>

\* exit_code = stdout.channel.recv_exit_status(); read stdout and stderr;
\* build the result (reads self.hostname)
ExecFinish(t) ==
    /\ th[t].pc = "e_wait"
    /\ ExitStatusAvailable(th[t].chan)
    /\ IF th[t].chan.exited
       THEN \E o \in RemoteOutcomes, readable \in BOOLEAN :
              IF readable
              THEN Step(t, Finish(th[t], ExecResult(th[t], o, hostname)))
              ELSE Step(t, Finish(th[t], ExecFailed("timed out")))
       ELSE Step(t, Finish(th[t], ExecResult(th[t], ClosedOutcome, hostname)))
    /\ UNCHANGED <<session, leaks, env, lastDisc>>

\* the response is delivered and the thread takes the next request
Return(t) ==
    /\ th[t].pc = "done"
    /\ Step(t, IdleRec)
    /\ UNCHANGED <<session, leaks, env, lastDisc>>

Next ==
    \E t \in Threads :
        \/ ConnBegin(t) \/ ConnNew(t) \/ ConnConnect(t) \/ ConnSetHost(t)
        \/ DiscBegin(t) \/ DiscClose(t) \/ DiscReset(t)
        \/ StatusCall(t)
        \/ ExecBegin(t) \/ ExecResolve(t) \/ ExecCheck(t) \/ ExecOpen(t)
        \/ ExecWrite(t) \/ RemoteExit(t) \/ ExecFinish(t)
        \/ Return(t)

Spec == Init /\ [][Next]_vars

\* the steps of the handler thread t runs, as opposed to what the remote side does
HandlerStep(t) ==
    \/ ConnNew(t) \/ ConnConnect(t) \/ ConnSetHost(t)
    \/ DiscClose(t) \/ DiscReset(t)
    \/ ExecResolve(t) \/ ExecCheck(t) \/ ExecOpen(t) \/ ExecWrite(t) \/ ExecFinish(t)

(***************************************************************************)
(* is_destructive_command applied to command texts: the examples of the    *)
(* documentation, the same in other letter cases, commands of the          *)
(* catalogue's categories, each with and without surrounding whitespace.   *)
(***************************************************************************)
SampleCommands == {
    "rm -rf /var/x", "dd if=/dev/zero of=/dev/sda", "shutdown now", "userdel bob",
    "mv /etc/foo /tmp/",
    "ls -la", "df -h", "uptime", "echo hi",
    "RM -RF /var/x", "Shutdown Now", "LS -LA",
    "iptables -F", "IPTABLES -F", "iptables -f",
    "pacman -R vim", "PACMAN -R VIM", "pacman -Syu",
    "cryptsetup luksFormat /dev/sdb1", "CRYPTSETUP LUKSFORMAT /DEV/SDB1",
    "systemctl restart nginx", "apt-get remove vim", "crontab -r", "crontab -l",
    ":> /etc/passwd", "cat x:> /etc/passwd", ":>/etc/hosts",
    "echo x > /dev/sda", "echo x>/dev/sda", "echo x > /tmp/out" }

Paddings == {"", " ", "\t"}

ClassifierInputs ==
    {lead \o c \o trail : c \in SampleCommands, lead \in Paddings, trail \in Paddings}

ClassifyInit ==
    /\ SessionInit
    /\ request \in {[fn |-> "is_destructive_command", command |-> c] : c \in ClassifierInputs}
    /\ reply = NoReply

\* is_destructive_command(command) is called and returns
Classify ==
    /\ request.fn = "is_destructive_command"
    /\ ~reply.given
    /\ reply' = Returned(is_destructive_command(request.command))
    /\ UNCHANGED <<session, leaks, th, mode, lastDisc, request>>

ClassifySpec == ClassifyInit /\ [][Classify]_vars

(***************************************************************************)
(* list_hosts (/api/hosts) and the ssh_list_hosts branch of call_tool,     *)
(* applied to host registries.  A registry is the dictionary config.yaml   *)
(* gives, in its order: a sequence of aliases with their profile, and a    *)
(* profile is a dictionary that may lack any of its keys.                  *)
(***************************************************************************)
ProfileKeys == {"hostname", "username", "port", "description", "password"}

Profile(keys, description, password) ==
    [k \in keys |->
        CASE k = "hostname" -> "10.0.0.5"
          [] k = "username" -> "admin"
          [] k = "port" -> 2222
          [] k = "description" -> description
          [] OTHER -> password]

\* a password may be a text of its own or the same text as the username
Profiles ==
    {Profile(keys, d, pw) : keys \in SUBSET ProfileKeys, d \in {"", "web"},
                            pw \in {"s3cret", "admin"}}

Aliases == {"vm1", "vm2"}

\* the largest number of profiles of a registry
MaxHosts == 2

Registries ==
    UNION {{r \in [1..n -> [alias : Aliases, config : Profiles]] :
                \A i, j \in 1..n : r[i].alias = r[j].alias => i = j} : n \in 0..MaxHosts}

\* config.get(key, default)
Get(config, key, default) == IF key \in DOMAIN config THEN config[key] ELSE default

\* config['hostname'] raises KeyError on a profile without hostname
MissingHostname(hosts) == \E i \in 1..Len(hosts) : "hostname" \notin DOMAIN hosts[i].config

\* an entry that carries the password along
HostEntryWithPassword(alias, config) ==
    [alias |-> alias, hostname |-> config["hostname"],
     username |-> Get(config, "username", "root"), port |-> Get(config, "port", 22),
     description |-> Get(config, "description", ""),
     password |-> Get(config, "password", "")]

\* hosts.append({...})
HostEntry(alias, config) ==
    [alias |-> alias, hostname |-> config["hostname"],
     username |-> Get(config, "username", "root"), port |-> Get(config, "port", 22),
     description |-> Get(config, "description", "")]

\* the body of the response of /api/hosts
list_hosts(hosts) ==
    IF Len(hosts) = 0 THEN [success |-> FALSE, error |-> "No hosts configured"]
    ELSE IF MissingHostname(hosts) THEN [success |-> FALSE, error |-> "'hostname'"]
    ELSE [success |-> TRUE,
          hosts |-> [i \in 1..Len(hosts) |-> HostEntry(hosts[i].alias, hosts[i].config)]]

\* the lines ssh_list_hosts writes for one profile
HostLines(alias, config) ==
    "  " \o alias \o ":\n" \o
    "    Hostname: " \o config["hostname"] \o "\n" \o
    "    Username: " \o Get(config, "username", "root") \o "\n" \o
    "    Port: " \o ToString(Get(config, "port", 22)) \o "\n" \o
    (IF Truthy(Get(config, "description", ""))
     THEN "    Description: " \o config["description"] \o "\n" ELSE "") \o
    "\n"

RECURSIVE AllHostLines(_)
AllHostLines(hosts) ==
    IF Len(hosts) = 0 THEN ""
    ELSE HostLines(hosts[1].alias, hosts[1].config) \o AllHostLines(Tail(hosts))

\* the text ssh_list_hosts returns
ssh_list_hosts(hosts) ==
    IF Len(hosts) = 0 THEN "No hosts configured in config.yaml"
    ELSE IF MissingHostname(hosts) THEN "Error: 'hostname'"
    ELSE "Configured SSH Hosts:\n\n" \o AllHostLines(hosts)

ListHostsInit ==
    /\ SessionInit
    /\ request \in {[fn |-> "list_hosts", hosts |-> r] : r \in Registries}
    /\ reply = NoReply

\* GET /api/hosts
ListHostsHttp ==
    /\ request.fn = "list_hosts"
    /\ ~reply.given
    /\ reply' = Returned([via |-> "http", body |-> list_hosts(request.hosts)])
    /\ UNCHANGED <<session, leaks, th, mode, lastDisc, request>>

\* call_tool("ssh_list_hosts")
ListHostsMcp ==
    /\ request.fn = "list_hosts"
    /\ ~reply.given
    /\ reply' = Returned([via |-> "mcp", text |-> ssh_list_hosts(request.hosts)])
    /\ UNCHANGED <<session, leaks, th, mode, lastDisc, request>>

ListHostsSpec == ListHostsInit /\ [][ListHostsHttp \/ ListHostsMcp]_vars

(***************************************************************************)
(* The result execute_command builds from what the channel delivered,      *)
(* applied to remote outputs of up to MaxLines lines with and without the  *)
(* '[sudo]' marker.                                                        *)
(***************************************************************************)
LinePieces == {"", "ok", "[sudo] password for admin: ", "x [sudo] y"}

\* the largest number of lines of a remote stdout
MaxLines == 3

StdoutTexts == {JoinLines(ls) : ls \in UNION {[1..n -> LinePieces] : n \in 1..MaxLines}}

StderrTexts == {"", "[sudo] failed\n"}

OutputInit ==
    /\ SessionInit
    /\ request \in {[fn |-> "execute_command", command |-> "ls -la", use_sudo |-> u,
                     exit_code |-> 0, stdout |-> so, stderr |-> se] :
                        u \in BOOLEAN, so \in StdoutTexts, se \in StderrTexts}
    /\ reply = NoReply

\* lines 180-195 of execute_command on the output read from the channel
BuildResult ==
    /\ request.fn = "execute_command"
    /\ ~reply.given
    /\ reply' = Returned(ExecResult(request, request, "10.0.0.5"))
    /\ UNCHANGED <<session, leaks, th, mode, lastDisc, request>>

OutputSpec == OutputInit /\ [][BuildResult]_vars

(***************************************************************************)
(* The way of a finished execute to the caller: the JSON body the          *)
(* /api/execute handler returns for what execute_command returned or       *)
(* raised, and the text Tools.ssh_execute (ssh_linux_control.py) makes of  *)
(* that body.  The warning sign and the bullets of the texts are left out. *)
(***************************************************************************)
DestructiveWarning(command) ==
    "WARNING: DESTRUCTIVE COMMAND DETECTED\n\nCommand: " \o command \o
    "\n\nThis command could:\n* Delete files or directories\n" \o
    "* Modify system configuration\n* Stop or restart services\n" \o
    "* Reboot/shutdown the system\n\nSet 'confirmed: true' to proceed."

\* jsonify(...) of the execute handler
ExecuteResponse(res) ==
    CASE res.kind = "result" ->
            [success |-> res.success, command |-> res.command, hostname |-> res.hostname,
             exit_code |-> res.exit_code, stdout |-> res.stdout, stderr |-> res.stderr,
             used_sudo |-> res.used_sudo]
      [] res.kind = "refusal" ->
            [success |-> FALSE, destructive |-> TRUE, error |-> res.msg,
             warning |-> DestructiveWarning(res.command)]
      [] OTHER -> [success |-> FALSE, error |-> res.msg]

\* Tools.ssh_execute on the body _make_request returned
Tools_ssh_execute(result) ==
    IF Get(result, "destructive", FALSE)
    THEN Get(result, "warning", "Destructive command requires confirmation")
    ELSE IF ~Get(result, "success", FALSE)
    THEN "Error: " \o Get(result, "error", "Command failed")
    ELSE "Command: " \o Fmt(Get(result, "command", NoneV)) \o "\n" \o
         "Host: " \o Fmt(Get(result, "hostname", NoneV)) \o "\n" \o
         (IF Get(result, "used_sudo", FALSE) THEN "Executed with: sudo\n" ELSE "") \o
         "Exit Code: " \o ToString(Get(result, "exit_code", 0)) \o "\n\n" \o
         (IF Truthy(Get(result, "stdout", ""))
          THEN "STDOUT:\n" \o result["stdout"] \o "\n" ELSE "") \o
         (IF Truthy(Get(result, "stderr", ""))
          THEN "\nSTDERR:\n" \o result["stderr"] \o "\n" ELSE "") \o
         (IF Get(result, "exit_code", 0) # 0
          THEN "\nCommand failed with exit code " \o ToString(Get(result, "exit_code", 0))
          ELSE "")

\* what a remote command may end with
ToolOutcomes ==
    [exit_code : {0, 1, 127}, stdout : {"", "ok\n"}, stderr : {"", "failed\n"}]

\* what the execute handler has in hand when it answers
HandlerResults ==
    {ExecResult([command |-> c, use_sudo |-> u], o, "10.0.0.5") :
        c \in Commands \ {""}, u \in BOOLEAN, o \in ToolOutcomes}
    \cup {RefusalRes(c) : c \in {d \in Commands : Destructive[d]}}
    \cup {NotConnected, ExecFailed("timed out"), ErrorRes("No command provided")}

ToolInit ==
    /\ SessionInit
    /\ request \in {[fn |-> "Tools.ssh_execute", res |-> r] : r \in HandlerResults}
    /\ reply = NoReply

\* the handler answers and Tools.ssh_execute turns the answer into its text
ToolsSshExecute ==
    /\ request.fn = "Tools.ssh_execute"
    /\ ~reply.given
    /\ LET body == ExecuteResponse(request.res) IN
       reply' = Returned([body |-> body, text |-> Tools_ssh_execute(body)])
    /\ UNCHANGED <<session, leaks, th, mode, lastDisc, request>>

ToolSpec == ToolInit /\ [][ToolsSshExecute]_vars

(***************************************************************************)
(* Properties.                                                             *)
(***************************************************************************)
Executes(t) == th[t].op = "execute"
Done(t) == th[t].pc = "done"
Refused(t) == Executes(t) /\ Done(t) /\ th[t].res.kind = "refusal"

\* the call got past the gate: execute_command was or is being called for it
GatePassed(t) == Executes(t) /\ th[t].command # "" /\ ~Refused(t)

SudoPrefixed(command) == StartsWith(Strip(command), "sudo")

\* C1: a destructive command is handed to execute_command / exec_command only
\* by a call whose own request carried confirmed = true
C1_ConfirmedOnThatCall ==
    \A t \in Threads :
        (GatePassed(t) \/ th[t].chan.open) /\ Destructive[th[t].command]
            => th[t].confirmed

\* a confirmed destructive command has its channel while the same command,
\* sent without confirmation by the other thread, was refused
C1_Witness ==
    \E t, u \in Threads :
        /\ t # u
        /\ th[t].chan.open /\ Destructive[th[t].command] /\ th[t].confirmed
        /\ Refused(u) /\ th[u].command = th[t].command /\ ~th[u].confirmed

C2_RefusalState ==
    \A t \in Threads :
        Executes(t) /\ Destructive[th[t].command] /\ ~th[t].confirmed
            => /\ Done(t)
               /\ th[t].res.kind = "refusal"
               /\ th[t].opened = 0
               /\ ~th[t].chan.open

C2_RefusalStep ==
    \A t \in Threads :
        ~Refused(t) /\ Refused(t)' => UNCHANGED <<client, hostname, host_alias, leaks>>

\* C2: a destructive command without confirmation is answered by a Refusal (not by
\* a not-connected failure) whatever the session is, no channel is opened for it,
\* and the step that refuses it leaves client, hostname and host_alias as they were
C2_RefusalTouchesNothing == [](C2_RefusalState) /\ [][C2_RefusalStep]_vars

\* a refusal returned while nothing is connected
C2_Witness ==
    \E t \in Threads : Refused(t) /\ ~th[t].confirmed /\ client = NoClient /\ hostname = NoneV

\* C3 as stated: a call past the gate and past the connectivity check opens
\* exactly one channel and returns an ExecutionResult
C3_AlwaysOneChannelAndResult ==
    \A t \in Threads :
        GatePassed(t) /\ Done(t) /\ th[t].res # NotConnected
            => th[t].opened = 1 /\ th[t].res.kind = "result"

\* C3, amended: no call opens more than one channel; an ExecutionResult is
\* returned only by a call past the gate that opened exactly one channel; every
\* other call past the gate ends in an error, never in a second attempt
C3_AtMostOneChannel ==
    \A t \in Threads :
        /\ th[t].opened <= 1
        /\ th[t].res.kind = "result" => GatePassed(t) /\ th[t].opened = 1
        /\ GatePassed(t) /\ Done(t) /\ th[t].res.kind # "result"
              => th[t].res.kind = "error"

\* an ExecutionResult returned after one channel
C3_Witness ==
    \E t \in Threads :
        GatePassed(t) /\ Done(t) /\ th[t].res.kind = "result" /\ th[t].opened = 1

Quiescent == \A t \in Threads : ~Running(t)

\* C4: between calls, hostname and client are both present or both absent
C4_HostnameIffClient == Quiescent => ((client = NoClient) <=> (hostname = NoneV))

\* C5: no transport is left open once ssh_conn.client no longer refers to it
C5_NoTransportLeft == leaks = 0

\* C6: what a status call reports as connected is the alias and the hostname of
\* one completed connect
C6_StatusSeesOneConnect ==
    \A t \in Threads :
        th[t].op = "status" /\ Done(t) /\ th[t].res.connected
            => /\ th[t].res.host \in DOMAIN SSH_HOSTS
               /\ SSH_HOSTS[th[t].res.host].hostname = th[t].res.hostname

ProfileSecrets == {SSH_HOSTS[a].password : a \in DOMAIN SSH_HOSTS}

C7_SecretState ==
    \A t \in Threads :
        Executes(t) =>
            /\ th[t].sudo_password \in ProfileSecrets \cup {NoneV}
            /\ \A i \in 1..Len(th[t].chan.stdin) :
                    /\ th[t].use_sudo
                    /\ Truthy(th[t].sudo_password)
                    /\ th[t].chan.stdin[i] = th[t].sudo_password \o "\n"
            /\ th[t].pc = "e_wait" => th[t].chan.open
            /\ th[t].pc = "e_wait" /\ ~Truthy(th[t].sudo_password) => th[t].chan.stdin = <<>>

C7_ResolveStep ==
    \A t \in Threads :
        th[t].pc = "e_resolve" /\ th'[t].pc = "e_check"
            => th'[t].sudo_password =
                 IF th[t].use_sudo /\ host_alias \in DOMAIN SSH_HOSTS
                 THEN SSH_HOSTS[host_alias].password
                 ELSE NoneV

\* C7: the secret of an escalated call is the password of the profile under
\* ssh_conn.host_alias when the call resolves it, whatever the request carries;
\* only that secret is written to the channel; without an alias or without a
\* password nothing is written and the command is issued all the same
C7_SecretFromProfileOnly == [](C7_SecretState) /\ [][C7_ResolveStep]_vars

\* the password of vm1's profile written on a channel of an escalated call
C7_Witness ==
    \E t \in Threads :
        /\ Executes(t) /\ th[t].use_sudo /\ th[t].chan.open
        /\ th[t].chan.stdin = <<SSH_HOSTS["vm1"].password \o "\n">>

\* C8: a command whose stripped text starts with 'sudo' runs escalated whatever
\* use_sudo the caller sent: pty channel, text sent as it is, used_sudo = true
C8_SudoPrefixForcesEscalation ==
    \A t \in Threads :
        GatePassed(t) /\ SudoPrefixed(th[t].command)
            => /\ th[t].use_sudo
               /\ th[t].chan.open => th[t].chan.pty /\ th[t].chan.cmdline = th[t].command
               /\ th[t].res.kind = "result" => th[t].res.used_sudo

\* a sudo-prefixed command sent with use_sudo = false and answered used_sudo = true
C8_Witness ==
    \E t \in Threads :
        /\ GatePassed(t) /\ SudoPrefixed(th[t].command) /\ ~th[t].req_sudo
        /\ th[t].res.kind = "result" /\ th[t].res.used_sudo
        /\ th[t].chan.pty /\ th[t].chan.cmdline = th[t].command

C9_FirstDisconnect ==
    \A t \in Threads :
        th[t].pc = "d_reset" /\ th[t].solo /\ is_connected /\ th'[t].pc = "done"
            => /\ client.state = "closed"
               /\ client' = NoClient /\ hostname' = NoneV /\ host_alias' = NoneV
               /\ th'[t].res = OkRes("Disconnected from " \o OrElse(host_alias, hostname))

C9_SecondDisconnect ==
    \A t \in Threads :
        th[t].op = "disconnect" /\ Done(t) /\ th[t].after = "named"
            => th[t].res = OkRes("No active connection")

\* C9: a disconnect that runs alone on a connected session closes the transport,
\* answers "Disconnected from <alias or hostname>" and resets the three fields; a
\* disconnect that follows it directly answers "No active connection"; both
\* return normally
C9_DisconnectIdempotent == [][C9_FirstDisconnect]_vars /\ [](C9_SecondDisconnect)

\* the second of two disconnects in a row has answered
C9_Witness ==
    \E t \in Threads :
        /\ th[t].op = "disconnect" /\ Done(t) /\ th[t].after = "named"
        /\ th[t].res.msg = "No active connection"

\* C10: a call in progress can always take a step of its own, so that a wait for
\* an exit status the remote never sends ends by itself
C10_WaitEndsByItself == \A t \in Threads : Running(t) => ENABLED HandlerStep(t)

Classified == request.fn = "is_destructive_command" /\ reply.given

DestructiveExamples == {"rm -rf /var/x", "dd if=/dev/zero of=/dev/sda", "shutdown now",
                        "userdel bob", "mv /etc/foo /tmp/"}
BenignExamples == {"ls -la", "df -h", "uptime", "echo hi"}

\* C11: is_destructive_command returns true for each of the destructive examples
\* and false for each of the benign examples
C11_ExamplesClassified ==
    Classified =>
        /\ request.command \in DestructiveExamples => reply.value
        /\ request.command \in BenignExamples => ~reply.value

\* the move out of /etc has been classified destructive
C11_Witness == Classified /\ request.command = "mv /etc/foo /tmp/" /\ reply.value

FlushRemoveFormat == {"iptables -f", "pacman -r vim", "cryptsetup luksformat /dev/sdb1"}

\* C12: firewall flushing, package removal with pacman and disk-encryption
\* formatting are classified destructive in whatever letter case they are typed
C12_AnyCaseFlagged ==
    Classified /\ Strip(Lower(request.command)) \in FlushRemoveFormat => reply.value

\* nothing is opened or written before the connectivity check
C13_BeforeCheck ==
    \A t \in Threads :
        Executes(t) /\ (th[t].pc \in {"e_resolve", "e_check"} \/ th[t].res = NotConnected)
            => th[t].opened = 0 /\ th[t].chan = NoChan

C13_CheckStep ==
    \A t \in Threads :
        /\ th'[t].op = "execute" /\ th[t].pc \in {"idle", "e_resolve", "e_check"}
              /\ th'[t].pc # th[t].pc
              => UNCHANGED <<client, hostname, host_alias, leaks>>
        /\ th[t].pc = "e_check" /\ (client = NoClient \/ hostname = NoneV)
              /\ th'[t].pc # "e_check"
              => /\ th'[t].pc = "done"
                 /\ th'[t].res = ErrorRes("Not connected to any host. Please connect first.")
                 /\ th'[t].opened = 0
                 /\ th'[t].chan = NoChan

\* C13: an execute past the gate that finds the session not connected fails with
\* the not-connected error, has opened no channel and written no secret, and none
\* of its steps changes client, hostname or host_alias
C13_NotConnectedFails == [](C13_BeforeCheck) /\ [][C13_CheckStep]_vars

\* a command past the gate answered "Not connected" while a client object without
\* hostname is left from a failed connect
C13_Witness ==
    \E t \in Threads :
        /\ GatePassed(t) /\ Done(t) /\ th[t].res = NotConnected
        /\ client # NoClient /\ hostname = NoneV

Listed == request.fn = "list_hosts" /\ reply.given

\* the registry with every password taken out
Redact(hosts) ==
    [i \in 1..Len(hosts) |->
        [alias |-> hosts[i].alias,
         config |-> [k \in DOMAIN hosts[i].config \ {"password"} |-> hosts[i].config[k]]]]

\* a password that is the text of no other field of the registry
PrivatePasswords(hosts) ==
    {hosts[i].config["password"] : i \in {j \in 1..Len(hosts) : "password" \in DOMAIN hosts[j].config}}
        \ {"admin"}

\* C14: what listHosts returns, over HTTP and over MCP, is what it returns for
\* the registry without its passwords; an HTTP entry has the keys alias, hostname,
\* username, port, description and no other; no password text appears in the output
C14_ListingOmitsPasswords ==
    Listed =>
        /\ reply.value.via = "http" =>
              /\ reply.value.body = list_hosts(Redact(request.hosts))
              /\ reply.value.body.success =>
                    \A i \in 1..Len(reply.value.body.hosts) :
                        LET e == reply.value.body.hosts[i] IN
                        /\ DOMAIN e = {"alias", "hostname", "username", "port", "description"}
                        /\ \A k \in DOMAIN e \ {"port"} : e[k] \notin PrivatePasswords(request.hosts)
        /\ reply.value.via = "mcp" =>
              /\ reply.value.text = ssh_list_hosts(Redact(request.hosts))
              /\ \A pw \in PrivatePasswords(request.hosts) : ~Contains(reply.value.text, pw)

\* two profiles with a password each have been listed over HTTP
C14_Witness ==
    /\ Listed /\ reply.value.via = "http" /\ reply.value.body.success
    /\ Len(request.hosts) = 2
    /\ \A i \in 1..2 : "password" \in DOMAIN request.hosts[i].config
    /\ PrivatePasswords(request.hosts) # {}

\* C15: a connect that fails, with no other call running beside it, leaves client,
\* hostname and host_alias as it found them
C15_FailedConnectLeavesSession ==
    \A t \in Threads :
        th[t].op = "connect" /\ Done(t) /\ th[t].res.kind = "error" /\ th[t].before # <<>>
            => session = th[t].before

\* C16: between serialized calls, a session that reports connected holds an
\* authenticated transport to its hostname, and its alias, if any, is the alias of
\* the profile with that hostname
C16_ConnectedMeansAuthenticated ==
    mode = "stdio" /\ Quiescent /\ is_connected
        => /\ client.state = "open"
           /\ client.host = hostname
           /\ host_alias \in DOMAIN SSH_HOSTS => SSH_HOSTS[host_alias].hostname = hostname

\* C17: a disconnect that finds the session not connected, with no other call
\* running beside it, answers "No active connection"
C17_DisconnectWhenNotConnected ==
    \A t \in Threads :
        /\ th[t].op = "disconnect" /\ Done(t) /\ th[t].before # <<>>
        /\ (th[t].before[1] = NoClient \/ th[t].before[2] = NoneV)
        => th[t].res = OkRes(NoActiveConnection)

\* the passwords of the profiles whose hostname is host
PasswordsFor(host) ==
    {SSH_HOSTS[a].password : a \in {b \in DOMAIN SSH_HOSTS : SSH_HOSTS[b].hostname = host}}

\* C18: what is written to a channel is the password of the profile of the host
\* the channel's transport is connected to
C18_SecretMatchesTransport ==
    \A t \in Threads :
        \A i \in 1..Len(th[t].chan.stdin) :
            \E pw \in PasswordsFor(th[t].chan.host) : th[t].chan.stdin[i] = pw \o "\n"

\* C19: the hostname of an ExecutionResult is the host of the connection the
\* command's channel was opened on
C19_ResultNamesChannelHost ==
    \A t \in Threads :
        Executes(t) /\ Done(t) /\ th[t].res.kind = "result"
            => th[t].res.hostname # NoneV /\ th[t].res.hostname = th[t].chan.host

FailedAfterCheck(r) ==
    r.op = "execute" /\ r.pc = "done" /\ r.res.kind = "error"
        /\ StartsWith(r.res.msg, "Failed to execute command: ")

C20_FailureStep ==
    \A t \in Threads :
        th[t].pc \in {"e_open", "e_write", "e_wait"} /\ FailedAfterCheck(th'[t])
            => /\ UNCHANGED <<client, hostname, host_alias, leaks>>
               /\ \A u \in Threads \ {t} : th'[u] = th[u]
               /\ th[t].chan.open => th'[t].chan.closed /\ ~th'[t].chan.current

C20_AfterFailure ==
    \A t \in Threads :
        mode = "stdio" /\ FailedAfterCheck(th[t]) => client # NoClient /\ hostname # NoneV

\* C20: the step in which an execute fails after the connectivity check changes
\* neither client, hostname nor host_alias, touches no other call's channel, and
\* leaves its own channel closed; between serialized calls the session is then
\* still connected
C20_FailedExecuteKeepsSession == [][C20_FailureStep]_vars /\ [](C20_AfterFailure)

\* reading the output of a command timed out on an open transport, and the
\* session still holds that transport
C20_Witness ==
    \E t \in Threads :
        /\ FailedAfterCheck(th[t]) /\ th[t].res = ExecFailed("timed out")
        /\ th[t].chan.closed
        /\ client.state = "open" /\ hostname = client.host

\* C21: once the command is issued and the call waits for the exit status, the
\* input of the channel holds the resolved secret once, followed by a newline, and
\* is closed, when the call is escalated and a secret was resolved; it holds
\* nothing otherwise
C21_SecretWrittenOnceThenClosed ==
    \A t \in Threads :
        Executes(t) /\ th[t].pc = "e_wait"
            => IF th[t].use_sudo /\ Truthy(th[t].sudo_password)
               THEN /\ th[t].chan.stdin = <<th[t].sudo_password \o "\n">>
                    /\ th[t].chan.stdin_closed
               ELSE th[t].chan.stdin = <<>>

\* the part of C21 about what is written, without the closing of the input
C21_SecretWrittenOnce ==
    \A t \in Threads :
        Executes(t) /\ th[t].pc = "e_wait"
            => th[t].chan.stdin = IF th[t].use_sudo /\ Truthy(th[t].sudo_password)
                                  THEN <<th[t].sudo_password \o "\n">> ELSE <<>>

\* C22: the command line sent is "sudo -S " and the request text when the call is
\* escalated and the trimmed text does not start with "sudo", the request text as
\* it is otherwise; the command of the result is the request text
C22_CommandLineWrapping ==
    \A t \in Threads :
        /\ th[t].chan.open =>
              th[t].chan.cmdline =
                  IF th[t].use_sudo /\ ~SudoPrefixed(th[t].command)
                  THEN "sudo -S " \o th[t].command
                  ELSE th[t].command
        /\ Executes(t) /\ th[t].res.kind = "result" => th[t].res.command = th[t].command

\* an escalated "ls -la" was sent wrapped and answered under its own text, and a
\* sudo-prefixed command was sent as it is
C22_Witness ==
    \E t, u \in Threads :
        /\ th[t].res.kind = "result" /\ th[t].use_sudo
        /\ th[t].chan.cmdline = "sudo -S ls -la" /\ th[t].res.command = "ls -la"
        /\ th[u].chan.open /\ th[u].use_sudo /\ th[u].chan.cmdline = " sudo reboot"

Built == request.fn = "execute_command" /\ reply.given

\* the lines of a text without those that contain the marker
LinesKept(text) == SelectSeq(SplitLines(text), LAMBDA line : ~HasSudoMarker(line))

\* C23: with escalation, no line of the returned stdout contains '[sudo]' and its
\* lines are the other lines of the remote stdout in their order; without
\* escalation the stdout is the remote stdout; the stderr is the remote stderr
C23_PromptLinesStripped ==
    Built =>
        /\ reply.value.stderr = request.stderr
        /\ ~request.use_sudo => reply.value.stdout = request.stdout
        /\ request.use_sudo =>
              /\ \A i \in 1..Len(SplitLines(reply.value.stdout)) :
                    ~HasSudoMarker(SplitLines(reply.value.stdout)[i])
              /\ IF LinesKept(request.stdout) = <<>>
                 THEN reply.value.stdout = ""
                 ELSE SplitLines(reply.value.stdout) = LinesKept(request.stdout)

\* an escalated call whose remote stdout had a prompt line between two lines
C23_Witness ==
    /\ Built /\ request.use_sudo
    /\ request.stdout = "ok\n[sudo] password for admin: \nok"
    /\ reply.value.stdout = "ok\nok"

ToolAnswered == request.fn = "Tools.ssh_execute" /\ reply.given

\* the command ran remotely and exited with a non-zero code
RanAndFailed == request.res.kind = "result" /\ request.res.exit_code # 0

\* C24: a command that ran and exited non-zero reaches the caller with
\* success = false, its exit code, its stdout and its stderr, in the body of
\* /api/execute and in the text of Tools.ssh_execute
C24_NonZeroExitReported ==
    ToolAnswered /\ RanAndFailed =>
        /\ reply.value.body.success = FALSE
        /\ reply.value.body.exit_code = request.res.exit_code
        /\ reply.value.body.stdout = request.res.stdout
        /\ reply.value.body.stderr = request.res.stderr
        /\ Contains(reply.value.text, "Exit Code: " \o ToString(request.res.exit_code))
        /\ Contains(reply.value.text, request.res.stdout)
        /\ Contains(reply.value.text, request.res.stderr)

\* the part of C24 about the body of /api/execute
C24_HttpBodyReports ==
    ToolAnswered /\ RanAndFailed =>
        /\ reply.value.body.success = FALSE
        /\ reply.value.body.exit_code = request.res.exit_code
        /\ reply.value.body.stdout = request.res.stdout
        /\ reply.value.body.stderr = request.res.stderr

TruncatesOrWritesDevice ==
    {":> /etc/passwd", "cat x:> /etc/passwd", ":>/etc/hosts",
     "echo x > /dev/sda", "echo x>/dev/sda"}

\* C25: a command that truncates a file with ':>' or redirects into a device node
\* is classified destructive whatever stands before the operator
C25_RedirectionFlagged ==
    Classified /\ Strip(request.command) \in TruncatesOrWritesDevice => reply.value

\* the part of C25 that holds: the operator directly after a word character
C25_AfterWordFlagged ==
    Classified /\ Strip(request.command) \in {"cat x:> /etc/passwd", "echo x>/dev/sda"}
        => reply.value

\* the argument of the connect is no alias, or the alias of a profile without password
WithoutCredential(r) ==
    r.op = "connect" /\ Truthy(r.host)
        /\ (r.host \notin DOMAIN SSH_HOSTS \/ ~Truthy(SSH_HOSTS[r.host].password))

\* C26: a connect without credential never comes to self.client.connect and ends
\* with the no-password error
C26_NoCredentialNoAttempt ==
    \A t \in Threads :
        WithoutCredential(th[t]) =>
            /\ th[t].pc \in {"c_new", "done"}
            /\ Done(t) => th[t].res = ErrorRes("SSH connection failed: No password found for host '"
                                                 \o th[t].host \o "' in config")

\* a connect to a literal hostname and one to the profile without password have
\* both failed
C26_Witness ==
    \E t, u \in Threads :
        /\ WithoutCredential(th[t]) /\ Done(t) /\ th[t].host = "10.0.0.9"
        /\ WithoutCredential(th[u]) /\ Done(u) /\ th[u].host = "vm3"
====
